---- MODULE Spec2Model ----
(***************************************************************************)
(* The writer bridge (src/index/bridge/index_writer_bridge.rs) and the     *)
(* process-wide writer registry (src/index/index_w.rs) of tantivy-search.  *)
(*                                                                         *)
(* A bridge is a Mutex<Option<IndexWriter>>: every operation locks the     *)
(* mutex, inspects the slot and calls the engine while holding the lock.   *)
(* The registry is a flurry::HashMap whose single operations (get,         *)
(* contains_key, insert, remove) are atomic; set_index_w and               *)
(* remove_index_w are each two of them in a row.                           *)
(*                                                                         *)
(* The engine (tantivy's IndexWriter) is not part of the repository: it is *)
(* modelled by its interface - a stamper, a buffer of pending operations   *)
(* and the committed documents a reader sees.                              *)
(***************************************************************************)
EXTENDS Integers, Sequences, FiniteSets, TLC

\* ------------------------------------------------------------------ bounds
NumThreads == 2
MaxCalls == 3
MaxTerms == 2

Threads == 1..NumThreads
Bridges == {"B1", "B2"}
Keys == {"K1", "K2"}
\* row_id values carried by documents and terms
Terms == 1..MaxTerms

NoThread == 0
NoBridge == "none"
NoTerm == 0

\* the argument lists delete_terms is called with: the lists of at most two
\* distinct terms
TermLists ==
    ({<<>>} \cup {<<a>> : a \in Terms} \cup {<<a, b>> : a \in Terms, b \in Terms})
        \ {<<a, a>> : a \in Terms}

VARIABLES
    INDEXW_CACHE,   \* the registry: key -> bridge, or NoBridge
    writer,         \* writer[b]: the slot of bridge b, "Some" or "None"
    mutex,          \* mutex[b]: [holder, poisoned]
    engine,         \* engine[b]: [stamp, pending] of the IndexWriter of b
    index,          \* index[b]: the committed documents, what a reader sees
    pc,             \* pc[t]: where thread t is
    call,           \* call[t]: the call thread t is in, or made last
    local,          \* local[t]: the locals of that call
    res,            \* res[t]: the result of the last call of t
    told,           \* told[b]: what the callers of bridge b were told so far
    ncalls,         \* calls made so far
    held,           \* held[t]: the bridge whose Arc thread t got from get_index_w
    garbage,        \* garbage[b]: Arcs of b taken out of the map, not yet dropped
    owner,          \* owner[b]: the creator of b still holds its Arc
    dropped         \* dropped[b]: how many times Drop has run for b

vars == <<INDEXW_CACHE, writer, mutex, engine, index, pc, call, local, res,
          told, ncalls, held, garbage, owner, dropped>>

bridgeVars == <<writer, mutex, engine, index, told>>
regVars == <<INDEXW_CACHE, held, garbage, owner, dropped>>
refVars == <<held, garbage, owner, dropped>>

\* ----------------------------------------------------------------- results
\* a result: Ok with an opstamp (val) or a bridge (b), or an error kind
Ok(v) == [kind |-> "Ok", val |-> v, b |-> "none"]
OkBridge(b) == [kind |-> "Ok", val |-> 0, b |-> b]
Err(k) == [kind |-> k, val |-> 0, b |-> "none"]
NoRes == [kind |-> "none", val |-> 0, b |-> "none"]

\* a call: the operation and its arguments; `retired` is whether a
\* wait_merging_threads of the bridge had returned success when it was made
NoCall == [op |-> "none", b |-> NoBridge, k |-> "none", term |-> NoTerm,
           terms |-> <<>>, retired |-> FALSE]
\* the locals of a call; `ecalls` counts the engine calls it has issued and
\* `efail` is whether one of them reported a failure
NoLocal == [opstamp |-> 0, rest |-> <<>>, present |-> FALSE, ecalls |-> 0,
            efail |-> FALSE]

BridgeOps == {"commit", "add_document", "delete_term", "delete_terms",
              "wait_merging_threads"}
Mutating == {"commit", "add_document", "delete_term", "delete_terms"}
RegistryOps == {"get", "set", "remove"}

\* ------------------------------------------------------ the engine (tantivy)
\* A document is [id, term]: id is the opstamp of its add, term its row_id.
\* A pending operation is [op, id, term].

\* IndexWriter::add_document takes a stamp and buffers the document
EngineAdd(e, term) ==
    [stamp |-> e.stamp + 1,
     pending |-> Append(e.pending, [op |-> "add", id |-> e.stamp, term |-> term])]

\* IndexWriter::delete_term takes a stamp and buffers the deletion
EngineDelete(e, term) ==
    [stamp |-> e.stamp + 1,
     pending |-> Append(e.pending, [op |-> "del", id |-> e.stamp, term |-> term])]

\* a failed engine call has taken its stamp and done nothing else
EngineFail(e) == [e EXCEPT !.stamp = e.stamp + 1]

\* the documents after the pending operations are applied in stamp order:
\* a deletion removes the documents of its term added before it
RECURSIVE ApplyPending(_, _)
ApplyPending(docs, ops) ==
    IF ops = <<>> THEN docs
    ELSE LET o == Head(ops)
             next == IF o.op = "add"
                     THEN docs \cup {[id |-> o.id, term |-> o.term]}
                     ELSE {d \in docs : ~(d.term = o.term /\ d.id < o.id)}
         IN ApplyPending(next, Tail(ops))

\* IndexWriter::commit takes a stamp and empties the buffer
EngineCommit(e) == [stamp |-> e.stamp + 1, pending |-> <<>>]

\* what index.reader().searcher() sees of bridge b
Searcher(b) == index[b]

\* ------------------------------------------- what the callers were told
\* told[b] records the successful returns of the operations on bridge b:
\* added: the documents [id, term] add_document returned the stamp id for
\* deleted: the deletions [id, term] delete_term(s) returned the stamp id for
\* commits: the stamps commit returned
\* waited: a wait_merging_threads has returned success
NoneTold == [added |-> {}, deleted |-> {}, commits |-> {}, waited |-> FALSE]

Tell(tb, c, r) ==
    IF r.kind # "Ok" THEN tb
    ELSE IF c.op = "add_document"
    THEN [tb EXCEPT !.added = @ \cup {[id |-> r.val, term |-> c.term]}]
    ELSE IF c.op = "delete_term"
    THEN [tb EXCEPT !.deleted = @ \cup {[id |-> r.val, term |-> c.term]}]
    ELSE IF c.op = "delete_terms"
    THEN [tb EXCEPT !.deleted = @ \cup {[id |-> r.val, term |-> c.terms[i]] :
                                            i \in 1..Len(c.terms)}]
    ELSE IF c.op = "commit"
    THEN [tb EXCEPT !.commits = @ \cup {r.val}]
    ELSE [tb EXCEPT !.waited = TRUE]

\* ------------------------------------------------------------------- Init
\* Both bridges are constructed with a live writer and are not yet in the
\* registry. B2 serves a new, empty index. B1 serves an index that holds one
\* committed document: its add_document (stamp 0) and commit (stamp 1) are over.
SeedDoc == [id |-> 0, term |-> 1]

Init ==
    /\ INDEXW_CACHE = [k \in Keys |-> NoBridge]
    /\ writer = [b \in Bridges |-> "Some"]
    /\ mutex = [b \in Bridges |-> [holder |-> NoThread, poisoned |-> FALSE]]
    /\ engine = [b \in Bridges |->
                    [stamp |-> IF b = "B1" THEN 2 ELSE 0, pending |-> <<>>]]
    /\ index = [b \in Bridges |-> IF b = "B1" THEN {SeedDoc} ELSE {}]
    /\ told = [b \in Bridges |->
                    IF b = "B1"
                    THEN [NoneTold EXCEPT !.added = {SeedDoc}, !.commits = {1}]
                    ELSE NoneTold]
    /\ pc = [t \in Threads |-> "idle"]
    /\ call = [t \in Threads |-> NoCall]
    /\ local = [t \in Threads |-> NoLocal]
    /\ res = [t \in Threads |-> NoRes]
    /\ ncalls = 0
    /\ held = [t \in Threads |-> NoBridge]
    /\ garbage = [b \in Bridges |-> 0]
    /\ owner = [b \in Bridges |-> TRUE]
    /\ dropped = [b \in Bridges |-> 0]

\* ------------------------------------------------------ shared ownership
\* thread t has an Arc of bridge b to call through: the one it got from
\* get_index_w, or the creator's
HasRef(t, b) == owner[b] \/ held[t] = b

\* Arc::strong_count of bridge b: the creator's Arc, the Arcs in the map,
\* those taken out of the map and not yet dropped, and those of the threads
strong_count(b) ==
    (IF owner[b] THEN 1 ELSE 0)
    + Cardinality({k \in Keys : INDEXW_CACHE[k] = b})
    + garbage[b]
    + Cardinality({t \in Threads : held[t] = b})

\* (mutant) unique ownership: giving up any handle destroys the bridge
last_ref_any(n) == TRUE

\* dropping an Arc destroys the value when it was the last one
last_ref(n) == n = 1

\* Drop for IndexW / IndexWriterBridge: the teardown record of b is emitted
\* when an Arc of b is dropped and it was the last
drop(d, b) ==
    IF b # NoBridge /\ last_ref(strong_count(b))
    THEN [d EXCEPT ![b] = @ + 1] ELSE d

\* --------------------------------------------------------- shared fragments
\* (mutant) a lock that lets every caller through
CanLock_always(m) == TRUE

\* self.writer.lock() goes through when no thread holds the mutex
CanLock(m) == m.holder = NoThread

\* (mutant) the slot is used without looking at what it holds
as_mut_unchecked(w) == TRUE

\* `if let Some(writer) = writer.as_mut()`: the slot holds a writer
as_mut(w) == w = "Some"

\* (mutant) the slot is looked at and left as it is
take_keep(w) == w

\* (mutant) a take that fills an empty slot again
take_flip(w) == IF w = "Some" THEN "None" ELSE "Some"

\* `writer.take()`: what the slot holds afterwards
take(w) == "None"

\* `let _ = writer.wait_merging_threads(); Ok(())`: the result of the call
\* for the outcome ok of the engine's drain
drain_result(ok) == Ok(0)

\* (mutant) an empty slot reported the way the other operations report it
wait_on_empty_unavailable == Err("Unavailable")

\* `Ok(())` when take() found the slot empty
wait_on_empty == Ok(0)

\* (mutant) an engine failure reported as success
map_err_swallow(ok, stamp) == Ok(stamp)

\* `.map_err(|e| e.to_string())`: the result for an engine outcome
map_err(ok, stamp) == IF ok THEN Ok(stamp) ELSE Err("EngineError")

\* (mutant) the local is never assigned in the loop
loop_opstamp_keep(old, stamp) == old

\* (mutant) the stamp of the first deletion is kept
loop_opstamp_first(old, stamp) == IF old = 0 THEN stamp ELSE old

\* `opstamp = writer.delete_term(term)`: the local after one deletion
loop_opstamp(old, stamp) == stamp

\* (mutant) the local starts at the engine's current stamp
opstamp_init_current(e) == e.stamp

\* `let mut opstamp: Opstamp = 0`: the local before the loop
opstamp_init(e) == 0

\* a thread starts a bridge operation: it is about to lock the mutex
Begin(t, c) ==
    /\ pc[t] = "idle"
    /\ HasRef(t, c.b)
    /\ ncalls < MaxCalls
    /\ pc' = [pc EXCEPT ![t] = "lock"]
    /\ call' = [call EXCEPT ![t] = [c EXCEPT !.retired = told[c.b].waited]]
    /\ local' = [local EXCEPT ![t] = NoLocal]
    /\ res' = [res EXCEPT ![t] = NoRes]
    /\ ncalls' = ncalls + 1
    /\ UNCHANGED <<bridgeVars, regVars>>

\* the thread keeps the guard and goes on at `at`
Hold(t, b, at) ==
    /\ mutex' = [mutex EXCEPT ![b].holder = t]
    /\ pc' = [pc EXCEPT ![t] = at]
    /\ UNCHANGED <<res, told>>

\* (mutant) a return that keeps the guard
Finish_leak(t, b, r) ==
    /\ mutex' = mutex
    /\ pc' = [pc EXCEPT ![t] = "idle"]
    /\ res' = [res EXCEPT ![t] = r]
    /\ told' = [told EXCEPT ![b] = Tell(@, call[t], r)]

\* the operation returns r. The guard, if held, is dropped: the mutex is
\* free again.
Finish(t, b, r) ==
    /\ mutex' = [mutex EXCEPT ![b].holder = NoThread]
    /\ pc' = [pc EXCEPT ![t] = "idle"]
    /\ res' = [res EXCEPT ![t] = r]
    /\ told' = [told EXCEPT ![b] = Tell(@, call[t], r)]

\* one more engine call issued by the call of t
Issued(t) == local' = [local EXCEPT ![t].ecalls = @ + 1]

\* (mutant) a failed engine call is made once more
Outcome_retry(t, ok) ==
    local' = [local EXCEPT ![t].ecalls = @ + (IF ok THEN 1 ELSE 2),
                           ![t].efail = ~ok]

\* one more engine call issued by the call of t, with the outcome ok
Outcome(t, ok) ==
    local' = [local EXCEPT ![t].ecalls = @ + 1, ![t].efail = ~ok]

\* (mutant) a poisoned lock reported the way an empty slot is
LockError_unavailable(t, b) == Finish(t, b, Err("Unavailable"))

\* lock() on a poisoned mutex is Err(PoisonError): the guard inside the error
\* is dropped with it
LockError(t, b) == Finish(t, b, Err("LockError"))

\* ------------------------------------------------------------------ commit
commit(t, b) ==
    Begin(t, [NoCall EXCEPT !.op = "commit", !.b = b])

commit_lock(t) ==
    /\ pc[t] = "lock" /\ call[t].op = "commit"
    /\ LET b == call[t].b IN
        /\ CanLock(mutex[b])
        /\ IF mutex[b].poisoned THEN LockError(t, b)
           ELSE IF as_mut(writer[b]) THEN Hold(t, b, "engine")
           ELSE Finish(t, b, Err("Unavailable"))
    /\ UNCHANGED <<writer, engine, index, call, local, ncalls, regVars>>

\* writer.commit() ends, with success or with an engine error
commit_engine(t) ==
    /\ pc[t] = "engine" /\ call[t].op = "commit"
    /\ LET b == call[t].b
           e == engine[b]
       IN \E ok \in BOOLEAN :
            /\ engine' = [engine EXCEPT
                            ![b] = IF ok THEN EngineCommit(e) ELSE EngineFail(e)]
            /\ index' = [index EXCEPT
                            ![b] = IF ok THEN ApplyPending(@, e.pending) ELSE @]
            /\ Finish(t, b, map_err(ok, e.stamp))
            /\ Outcome(t, ok)
    /\ UNCHANGED <<writer, call, ncalls, regVars>>

\* ------------------------------------------------------------ add_document
add_document(t, b, term) ==
    Begin(t, [NoCall EXCEPT !.op = "add_document", !.b = b, !.term = term])

add_document_lock(t) ==
    /\ pc[t] = "lock" /\ call[t].op = "add_document"
    /\ LET b == call[t].b IN
        /\ CanLock(mutex[b])
        /\ IF mutex[b].poisoned THEN LockError(t, b)
           ELSE IF as_mut(writer[b]) THEN Hold(t, b, "engine")
           ELSE Finish(t, b, Err("Unavailable"))
    /\ UNCHANGED <<writer, engine, index, call, local, ncalls, regVars>>

\* (mutant) an add_document that commits after the add
add_document_engine_flush(t) ==
    /\ pc[t] = "engine" /\ call[t].op = "add_document"
    /\ LET b == call[t].b
           e == EngineAdd(engine[b], call[t].term)
       IN /\ engine' = [engine EXCEPT ![b] = EngineCommit(e)]
          /\ index' = [index EXCEPT ![b] = ApplyPending(@, e.pending)]
          /\ Finish(t, b, Ok(engine[b].stamp))
    /\ Issued(t)
    /\ UNCHANGED <<writer, call, ncalls, regVars>>

\* writer.add_document(document) ends, with success or with an engine error
add_document_engine(t) ==
    /\ pc[t] = "engine" /\ call[t].op = "add_document"
    /\ LET b == call[t].b
           e == engine[b]
       IN \E ok \in BOOLEAN :
            /\ engine' = [engine EXCEPT
                            ![b] = IF ok THEN EngineAdd(e, call[t].term)
                                   ELSE EngineFail(e)]
            /\ Finish(t, b, map_err(ok, e.stamp))
            /\ Outcome(t, ok)
    /\ UNCHANGED <<writer, index, call, ncalls, regVars>>

\* ------------------------------------------------------------- delete_term
delete_term(t, b, term) ==
    Begin(t, [NoCall EXCEPT !.op = "delete_term", !.b = b, !.term = term])

delete_term_lock(t) ==
    /\ pc[t] = "lock" /\ call[t].op = "delete_term"
    /\ LET b == call[t].b IN
        /\ CanLock(mutex[b])
        /\ IF mutex[b].poisoned THEN LockError(t, b)
           ELSE IF as_mut(writer[b]) THEN Hold(t, b, "engine")
           ELSE Finish(t, b, Err("Unavailable"))
    /\ UNCHANGED <<writer, engine, index, call, local, ncalls, regVars>>

\* writer.delete_term(term) ends: the engine's call cannot fail
delete_term_engine(t) ==
    /\ pc[t] = "engine" /\ call[t].op = "delete_term"
    /\ LET b == call[t].b
           e == engine[b]
       IN /\ engine' = [engine EXCEPT ![b] = EngineDelete(e, call[t].term)]
          /\ Finish(t, b, Ok(e.stamp))
    /\ Issued(t)
    /\ UNCHANGED <<writer, index, call, ncalls, regVars>>

\* ------------------------------------------------------------ delete_terms
delete_terms(t, b, terms) ==
    Begin(t, [NoCall EXCEPT !.op = "delete_terms", !.b = b, !.terms = terms])

\* on a live writer: `let mut opstamp: Opstamp = 0` and the loop starts
delete_terms_lock(t) ==
    /\ pc[t] = "lock" /\ call[t].op = "delete_terms"
    /\ LET b == call[t].b IN
        /\ CanLock(mutex[b])
        /\ IF mutex[b].poisoned
           THEN LockError(t, b) /\ UNCHANGED local
           ELSE IF as_mut(writer[b])
           THEN /\ Hold(t, b, "loop")
                /\ local' = [local EXCEPT ![t].opstamp = opstamp_init(engine[b]),
                                          ![t].rest = call[t].terms]
           ELSE Finish(t, b, Err("Unavailable")) /\ UNCHANGED local
    /\ UNCHANGED <<writer, engine, index, call, ncalls, regVars>>

\* one turn of `for term in terms { opstamp = writer.delete_term(term) }`
delete_terms_loop(t) ==
    /\ pc[t] = "loop" /\ local[t].rest # <<>>
    /\ LET b == call[t].b
           e == engine[b]
           term == Head(local[t].rest)
       IN /\ engine' = [engine EXCEPT ![b] = EngineDelete(e, term)]
          /\ local' = [local EXCEPT
                          ![t].opstamp = loop_opstamp(@, e.stamp),
                          ![t].rest = Tail(@),
                          ![t].ecalls = @ + 1]
    /\ UNCHANGED <<writer, mutex, index, told, pc, call, res, ncalls, regVars>>

\* the loop is over: Ok(opstamp)
delete_terms_return(t) ==
    /\ pc[t] = "loop" /\ local[t].rest = <<>>
    /\ Finish(t, call[t].b, Ok(local[t].opstamp))
    /\ UNCHANGED <<writer, engine, index, call, local, ncalls, regVars>>

\* ---------------------------------------------------- wait_merging_threads
wait_merging_threads(t, b) ==
    Begin(t, [NoCall EXCEPT !.op = "wait_merging_threads", !.b = b])

\* `if let Some(writer) = writer.take()`: the slot is emptied; a writer that
\* was there is drained, and on an empty slot the call is over
wait_merging_threads_lock(t) ==
    /\ pc[t] = "lock" /\ call[t].op = "wait_merging_threads"
    /\ LET b == call[t].b IN
        /\ CanLock(mutex[b])
        /\ IF mutex[b].poisoned
           THEN LockError(t, b) /\ UNCHANGED writer
           ELSE /\ writer' = [writer EXCEPT ![b] = take(@)]
                /\ IF writer[b] = "Some" THEN Hold(t, b, "drain")
                   ELSE Finish(t, b, wait_on_empty)
    /\ UNCHANGED <<engine, index, call, local, ncalls, regVars>>

\* writer.wait_merging_threads() ends: its outcome is dropped (`let _ =`)
wait_merging_threads_drain(t) ==
    /\ pc[t] = "drain"
    /\ LET b == call[t].b IN
        \E ok \in BOOLEAN : Finish(t, b, drain_result(ok)) /\ Outcome(t, ok)
    /\ UNCHANGED <<writer, engine, index, call, ncalls, regVars>>

\* ------------------------------------------------------------------- panic
\* The thread panics inside an engine call: the guard is dropped while
\* unwinding, which poisons the mutex, and so is the Arc the thread got from
\* get_index_w. The thread is gone.
InEngine(t) ==
    \/ pc[t] \in {"engine", "drain"}
    \/ pc[t] = "loop" /\ local[t].rest # <<>>

panic(t) ==
    /\ InEngine(t)
    /\ LET b == call[t].b IN
        mutex' = [mutex EXCEPT ![b] = [holder |-> NoThread, poisoned |-> TRUE]]
    /\ pc' = [pc EXCEPT ![t] = "panicked"]
    /\ held' = [held EXCEPT ![t] = NoBridge]
    /\ dropped' = drop(dropped, held[t])
    /\ UNCHANGED <<writer, engine, index, told, call, local, res, ncalls,
                   INDEXW_CACHE, garbage, owner>>

\* ---------------------------------------------------------------- registry
\* the single operations of flurry::HashMap, each atomic
contains_key(m, k) == m[k] # NoBridge

\* (mutant) replacing done as removing: a key already mapped loses its entry
insert_evict(m, k, v) ==
    IF m[k] = NoBridge THEN [m EXCEPT ![k] = v] ELSE [m EXCEPT ![k] = NoBridge]

\* (mutant) an insert that keeps the entry of a key already mapped
insert_if_absent(m, k, v) == IF m[k] = NoBridge THEN [m EXCEPT ![k] = v] ELSE m

insert(m, k, v) == [m EXCEPT ![k] = v]

\* (mutant) a removal that empties the map
remove_all(m, k) == [j \in Keys |-> NoBridge]

remove(m, k) == [m EXCEPT ![k] = NoBridge]

\* what set_index_w returns when contains_key gave `present`
set_result(present) == IF present THEN Err("AlreadyExists") ELSE Ok(0)

\* what get_index_w returns for the entry it read
get_result(v) == IF v # NoBridge THEN OkBridge(v) ELSE Err("NotFound")

\* a thread starts a registry operation
RBegin(t, c) ==
    /\ pc[t] = "idle"
    /\ ncalls < MaxCalls
    /\ call' = [call EXCEPT ![t] = c]
    /\ ncalls' = ncalls + 1

\* get_index_w: one read of the map; `result.clone()` is a new Arc in the
\* caller's hands, in place of the one a get gave it before
get_index_w(t, k) ==
    LET c == [NoCall EXCEPT !.op = "get", !.k = k]
        r == get_result(INDEXW_CACHE[k])
    IN /\ RBegin(t, c)
       /\ res' = [res EXCEPT ![t] = r]
       /\ local' = [local EXCEPT ![t] = NoLocal]
       /\ IF r.kind = "Ok"
          THEN /\ held' = [held EXCEPT ![t] = r.b]
               /\ dropped' = IF held[t] = r.b THEN dropped
                              ELSE drop(dropped, held[t])
          ELSE UNCHANGED <<held, dropped>>
       /\ UNCHANGED <<INDEXW_CACHE, garbage, owner, pc, bridgeVars>>

\* set_index_w: `if pinned.contains_key(&key)` ...
set_index_w(t, k, b) ==
    LET c == [NoCall EXCEPT !.op = "set", !.k = k, !.b = b]
    IN /\ RBegin(t, c)
       /\ HasRef(t, b)
       /\ local' = [local EXCEPT
                       ![t] = [NoLocal EXCEPT
                                 !.present = contains_key(INDEXW_CACHE, k)]]
       /\ pc' = [pc EXCEPT ![t] = "set_insert"]
       /\ res' = [res EXCEPT ![t] = NoRes]
       /\ UNCHANGED <<INDEXW_CACHE, refVars, bridgeVars>>

\* the Arcs the map gave up: the value a key was mapped to is retired, to be
\* dropped by the map's collector later
retire(g, v) == IF v = NoBridge THEN g ELSE [g EXCEPT ![v] = @ + 1]

\* ... then `pinned.insert(key, value.clone())` in either branch
set_index_w_insert(t) ==
    /\ pc[t] = "set_insert"
    /\ LET r == set_result(local[t].present)
       IN /\ INDEXW_CACHE' = insert(INDEXW_CACHE, call[t].k, call[t].b)
          /\ res' = [res EXCEPT ![t] = r]
    /\ garbage' = retire(garbage, INDEXW_CACHE[call[t].k])
    /\ pc' = [pc EXCEPT ![t] = "idle"]
    /\ UNCHANGED <<call, local, ncalls, held, owner, dropped, bridgeVars>>

\* remove_index_w: `if pinned.contains_key(&key)`, else the NotFound error
remove_index_w(t, k) ==
    LET c == [NoCall EXCEPT !.op = "remove", !.k = k]
        present == contains_key(INDEXW_CACHE, k)
        r == Err("NotFound")
    IN /\ RBegin(t, c)
       /\ local' = [local EXCEPT ![t] = [NoLocal EXCEPT !.present = present]]
       /\ IF present
          THEN /\ pc' = [pc EXCEPT ![t] = "remove_remove"]
               /\ res' = [res EXCEPT ![t] = NoRes]
          ELSE /\ pc' = pc
               /\ res' = [res EXCEPT ![t] = r]
       /\ UNCHANGED <<INDEXW_CACHE, refVars, bridgeVars>>

\* ... then `pinned.remove(&key); Ok(())`
remove_index_w_remove(t) ==
    /\ pc[t] = "remove_remove"
    /\ INDEXW_CACHE' = remove(INDEXW_CACHE, call[t].k)
    /\ garbage' = retire(garbage, INDEXW_CACHE[call[t].k])
    /\ res' = [res EXCEPT ![t] = Ok(0)]
    /\ pc' = [pc EXCEPT ![t] = "idle"]
    /\ UNCHANGED <<call, local, ncalls, held, owner, dropped, bridgeVars>>

\* ------------------------------------------------------- giving up handles
\* a thread lets go of the Arc it got from get_index_w
release(t) ==
    /\ pc[t] = "idle"
    /\ held[t] # NoBridge
    /\ held' = [held EXCEPT ![t] = NoBridge]
    /\ dropped' = drop(dropped, held[t])
    /\ UNCHANGED <<INDEXW_CACHE, garbage, owner, pc, call, local, res, ncalls,
                   bridgeVars>>

\* the map's collector drops an Arc that insert or remove took out of the map
reclaim(b) ==
    /\ garbage[b] > 0
    /\ garbage' = [garbage EXCEPT ![b] = @ - 1]
    /\ dropped' = drop(dropped, b)
    /\ UNCHANGED <<INDEXW_CACHE, held, owner, pc, call, local, res, ncalls,
                   bridgeVars>>

\* the calls in progress that go through the creator's Arc of b
ThroughOwner(b) ==
    {t \in Threads : /\ pc[t] \notin {"idle", "panicked"}
                     /\ call[t].b = b /\ held[t] # b}

\* the creator of b lets go of its Arc, once no call goes through it
drop_owner(b) ==
    /\ owner[b]
    /\ ThroughOwner(b) = {}
    /\ owner' = [owner EXCEPT ![b] = FALSE]
    /\ dropped' = drop(dropped, b)
    /\ UNCHANGED <<INDEXW_CACHE, held, garbage, pc, call, local, res, ncalls,
                   bridgeVars>>

\* ------------------------------------------------------ the specifications
Step(t) ==
    \/ \E b \in Bridges : commit(t, b)
    \/ commit_lock(t)
    \/ commit_engine(t)
    \/ \E b \in Bridges, term \in Terms : add_document(t, b, term)
    \/ add_document_lock(t)
    \/ add_document_engine(t)
    \/ \E b \in Bridges, term \in Terms : delete_term(t, b, term)
    \/ delete_term_lock(t)
    \/ delete_term_engine(t)
    \/ \E b \in Bridges, terms \in TermLists : delete_terms(t, b, terms)
    \/ delete_terms_lock(t)
    \/ delete_terms_loop(t)
    \/ delete_terms_return(t)
    \/ \E b \in Bridges : wait_merging_threads(t, b)
    \/ wait_merging_threads_lock(t)
    \/ wait_merging_threads_drain(t)
    \/ panic(t)
    \/ \E k \in Keys : get_index_w(t, k)
    \/ \E k \in Keys, b \in Bridges : set_index_w(t, k, b)
    \/ set_index_w_insert(t)
    \/ \E k \in Keys : remove_index_w(t, k)
    \/ remove_index_w_remove(t)

Next == \E t \in Threads : Step(t)

Spec == Init /\ [][Next]_vars

\* the steps in which thread t acquires the lock of the bridge it called
LockStep(t) ==
    \/ commit_lock(t)
    \/ add_document_lock(t)
    \/ delete_term_lock(t)
    \/ delete_terms_lock(t)
    \/ wait_merging_threads_lock(t)

\* the steps in which a thread that holds the lock goes on: its engine call
\* ends, its loop makes a turn or returns, its drain ends
HolderStep(t) ==
    \/ commit_engine(t)
    \/ add_document_engine(t)
    \/ delete_term_engine(t)
    \/ delete_terms_loop(t)
    \/ delete_terms_return(t)
    \/ wait_merging_threads_drain(t)

\* the engine's calls end and the thread holding a lock keeps running (weak
\* fairness); a thread waiting in lock() gets the mutex if it is free again
\* and again (strong fairness: lock acquisition is fair)
Fairness ==
    \A t \in Threads :
        /\ WF_vars(HolderStep(t))
        /\ SF_vars(LockStep(t))

\* the bridges at work: the threads call the five operations of the bridges
\* through their creators' Arcs, under that fairness
BridgeNext ==
    \E t \in Threads :
        \/ \E b \in Bridges : commit(t, b)
        \/ \E b \in Bridges, term \in Terms : add_document(t, b, term)
        \/ \E b \in Bridges, term \in Terms : delete_term(t, b, term)
        \/ \E b \in Bridges, terms \in TermLists : delete_terms(t, b, terms)
        \/ \E b \in Bridges : wait_merging_threads(t, b)
        \/ LockStep(t)
        \/ HolderStep(t)
        \/ panic(t)

FairSpec == Init /\ [][BridgeNext]_vars /\ Fairness

\* a sequential run of the registry: the threads call get_index_w,
\* set_index_w and remove_index_w one call at a time, a thread taking a step
\* only while every other thread is idle
OthersIdle(t) == \A u \in Threads \ {t} : pc[u] = "idle"

SeqNext ==
    \E t \in Threads :
        \/ \E k \in Keys : OthersIdle(t) /\ get_index_w(t, k)
        \/ \E k \in Keys, b \in Bridges : OthersIdle(t) /\ set_index_w(t, k, b)
        \/ OthersIdle(t) /\ set_index_w_insert(t)
        \/ \E k \in Keys : OthersIdle(t) /\ remove_index_w(t, k)
        \/ OthersIdle(t) /\ remove_index_w_remove(t)

SeqSpec == Init /\ [][SeqNext]_vars

\* the registry in use: B1 was registered under K1 by set_index_w and its
\* creator has let go of its Arc, so B1 is reached through get_index_w only;
\* B2 is still in its creator's hands. Handles are given up as the run goes.
RefInit ==
    /\ INDEXW_CACHE = [k \in Keys |-> IF k = "K1" THEN "B1" ELSE NoBridge]
    /\ writer = [b \in Bridges |-> "Some"]
    /\ mutex = [b \in Bridges |-> [holder |-> NoThread, poisoned |-> FALSE]]
    /\ engine = [b \in Bridges |->
                    [stamp |-> IF b = "B1" THEN 2 ELSE 0, pending |-> <<>>]]
    /\ index = [b \in Bridges |-> IF b = "B1" THEN {SeedDoc} ELSE {}]
    /\ told = [b \in Bridges |->
                    IF b = "B1"
                    THEN [NoneTold EXCEPT !.added = {SeedDoc}, !.commits = {1}]
                    ELSE NoneTold]
    /\ pc = [t \in Threads |-> "idle"]
    /\ call = [t \in Threads |-> NoCall]
    /\ local = [t \in Threads |-> NoLocal]
    /\ res = [t \in Threads |-> NoRes]
    /\ ncalls = 0
    /\ held = [t \in Threads |-> NoBridge]
    /\ garbage = [b \in Bridges |-> 0]
    /\ owner = [b \in Bridges |-> b # "B1"]
    /\ dropped = [b \in Bridges |-> 0]

RefNext ==
    \/ \E t \in Threads : Step(t)
    \/ \E t \in Threads : release(t)
    \/ \E b \in Bridges : reclaim(b)
    \/ \E b \in Bridges : drop_owner(b)

RefSpec == RefInit /\ [][RefNext]_vars

\* ================================================================== claims

\* ------------------------------------------------------------------- C1
\* C1: once a wait_merging_threads of a bridge has returned success, every
\* call to commit, add_document, delete_term or delete_terms made on that
\* bridge afterwards, by any thread, never enters the engine, has issued no
\* engine call and, when it has returned, has returned Unavailable.
C1_RetiredIsUnavailable ==
    \A t \in Threads :
        (call[t].op \in Mutating /\ call[t].retired) =>
            /\ ~InEngine(t)
            /\ pc[t] \in {"lock", "idle"}
            /\ local[t].ecalls = 0
            /\ pc[t] = "idle" => res[t] = Err("Unavailable")

\* a mutating call made after a successful wait_merging_threads has returned
C1_Witness ==
    \E t \in Threads :
        /\ call[t].op \in Mutating /\ call[t].retired
        /\ pc[t] = "idle" /\ res[t] = Err("Unavailable")

\* ------------------------------------------------------------------- C2
\* C2: on every bridge at most one thread is past lock() at any time - inside
\* its engine call, its deletion loop or the merge drain - and that thread is
\* the holder of the bridge's mutex; every other caller of the bridge is
\* still waiting for the lock or has returned.
Inside(b) ==
    {t \in Threads : call[t].b = b /\ pc[t] \in {"engine", "loop", "drain"}}

C2_MutualExclusion ==
    \A b \in Bridges :
        /\ Cardinality(Inside(b)) <= 1
        /\ \A t \in Inside(b) : mutex[b].holder = t
        /\ mutex[b].holder # NoThread => mutex[b].holder \in Inside(b)

\* one thread drains the merges of a bridge while another waits for its lock
C2_Witness ==
    \E t, u \in Threads :
        /\ t # u /\ call[t].b = call[u].b
        /\ pc[t] = "drain" /\ pc[u] = "lock"

\* ------------------------------------------------------------------- C3
\* the registry operations taken as single atomic steps: the mapping and the
\* result after call c on the mapping m
AtomicStep(m, c) ==
    IF c.op = "get"
    THEN [m |-> m,
          r |-> IF m[c.k] = NoBridge THEN Err("NotFound") ELSE OkBridge(m[c.k])]
    ELSE IF c.op = "set"
    THEN [m |-> [m EXCEPT ![c.k] = c.b],
          r |-> IF m[c.k] = NoBridge THEN Ok(0) ELSE Err("AlreadyExists")]
    ELSE IF m[c.k] = NoBridge
    THEN [m |-> m, r |-> Err("NotFound")]
    ELSE [m |-> [m EXCEPT ![c.k] = NoBridge], r |-> Ok(0)]

\* the orders in which the threads of T can be taken one after another
Orders(T) ==
    {f \in [1..Cardinality(T) -> T] :
        \A i, j \in 1..Cardinality(T) : i # j => f[i] # f[j]}

\* taking the calls of the threads f[i], f[i+1], ... one after another from
\* the mapping m gives each thread the result it got and ends in the
\* registry as it is
RECURSIVE Explains(_, _, _, _)
Explains(m, f, i, n) ==
    IF i > n THEN m = INDEXW_CACHE
    ELSE LET a == AtomicStep(m, call[f[i]])
         IN a.r = res[f[i]] /\ Explains(a.m, f, i + 1, n)

\* the threads whose last call is a registry call
RegistryCallers == {t \in Threads : call[t].op \in RegistryOps}

\* the calls made so far are registry calls, one per thread, all returned
OneRegistryCallEach ==
    /\ \A t \in Threads : pc[t] = "idle"
    /\ ncalls = Cardinality(RegistryCallers)

\* C3: when the threads have each made one get, set or remove call on the
\* registry (concurrently or not) and all have returned, the results they
\* got and the final mapping are those of the same calls taken one at a
\* time, as atomic steps, in some order, from the empty registry.
C3_Linearizable ==
    OneRegistryCallEach =>
        \E f \in Orders(RegistryCallers) :
            Explains([k \in Keys |-> NoBridge], f, 1, Cardinality(RegistryCallers))

\* ------------------------------------------------------------------- C4
\* C4: in a sequential run, the insert of set(K, B) leaves K mapped to B and
\* changes no other key, and the call reports AlreadyExists exactly when K
\* was mapped before it and success exactly when K was absent; a get(K)
\* returns the bridge K is mapped to (so after set(K, B1), set(K, B2) the
\* second set reports AlreadyExists and get(K) returns B2).
C4_SetOverwrites ==
    [][\A t \in Threads :
        /\ set_index_w_insert(t) =>
            /\ INDEXW_CACHE' = [INDEXW_CACHE EXCEPT ![call[t].k] = call[t].b]
            /\ res'[t].kind = "AlreadyExists" <=> INDEXW_CACHE[call[t].k] # NoBridge
            /\ res'[t].kind = "Ok" <=> INDEXW_CACHE[call[t].k] = NoBridge
        /\ \A k \in Keys :
            (get_index_w(t, k) /\ INDEXW_CACHE[k] # NoBridge) =>
                res'[t] = OkBridge(INDEXW_CACHE[k])
      ]_vars

\* set(K, B1) by one thread returned success, then set(K, B2) by the other
\* reported AlreadyExists, and K is mapped to B2
C4_Witness ==
    \E t, u \in Threads : \E k \in Keys :
        /\ call[t] = [NoCall EXCEPT !.op = "set", !.k = k, !.b = "B1"]
        /\ call[u] = [NoCall EXCEPT !.op = "set", !.k = k, !.b = "B2"]
        /\ pc[t] = "idle" /\ pc[u] = "idle"
        /\ res[t] = Ok(0) /\ res[u] = Err("AlreadyExists")
        /\ INDEXW_CACHE[k] = "B2"

\* ------------------------------------------------------------------- C5
\* C5: in a sequential run, remove(K) on an absent K returns NotFound and
\* leaves the whole mapping unchanged; remove(K) on a present K goes on to
\* the removal, which returns success, leaves K absent and leaves the entry
\* of every other key unchanged; a get(K) on an absent K returns NotFound.
C5_Remove ==
    [][\A t \in Threads :
        /\ \A k \in Keys :
            /\ (remove_index_w(t, k) /\ INDEXW_CACHE[k] = NoBridge) =>
                    /\ res'[t] = Err("NotFound")
                    /\ pc'[t] = "idle"
                    /\ INDEXW_CACHE' = INDEXW_CACHE
            /\ (remove_index_w(t, k) /\ INDEXW_CACHE[k] # NoBridge) =>
                    /\ pc'[t] = "remove_remove"
                    /\ INDEXW_CACHE' = INDEXW_CACHE
            /\ (get_index_w(t, k) /\ INDEXW_CACHE[k] = NoBridge) =>
                    res'[t] = Err("NotFound")
        /\ remove_index_w_remove(t) =>
            /\ INDEXW_CACHE[call[t].k] # NoBridge
            /\ res'[t] = Ok(0)
            /\ INDEXW_CACHE'[call[t].k] = NoBridge
            /\ \A k \in Keys \ {call[t].k} : INDEXW_CACHE'[k] = INDEXW_CACHE[k]
      ]_vars

\* with both keys mapped, a remove of one has returned success: that key is
\* absent and the other key is still mapped
C5_Witness ==
    \E t \in Threads : \E k \in Keys :
        /\ call[t].op = "remove" /\ call[t].k = k /\ res[t] = Ok(0)
        /\ \A u \in Threads : pc[u] = "idle"
        /\ INDEXW_CACHE[k] = NoBridge
        /\ \E j \in Keys \ {k} : INDEXW_CACHE[j] # NoBridge

\* ------------------------------------------------------------------- C6
\* C6: a wait_merging_threads that locks the mutex (a poisoned mutex is the
\* LockError of C18) and finds the slot already empty returns success at
\* once: it issues no engine call and leaves the slot, the engine and the
\* index as they were. So every wait_merging_threads called after one has
\* returned success returns success too, with no engine call, and the slot
\* is still empty.
C6_OnEmptySlot(t) ==
    (/\ wait_merging_threads_lock(t)
     /\ writer[call[t].b] = "None"
     /\ ~mutex[call[t].b].poisoned) =>
        /\ res'[t] = Ok(0)
        /\ pc'[t] = "idle"
        /\ local'[t].ecalls = 0
        /\ writer' = writer /\ engine' = engine /\ index' = index

C6_SecondCall(t) ==
    (call[t].op = "wait_merging_threads" /\ call[t].retired /\ pc[t] # "lock") =>
        /\ pc[t] = "idle"
        /\ res[t] = Ok(0)
        /\ local[t].ecalls = 0
        /\ writer[call[t].b] = "None"

C6_WaitIdempotent ==
    /\ [](\A t \in Threads : C6_SecondCall(t))
    /\ [][\A t \in Threads : C6_OnEmptySlot(t)]_vars

\* a second wait_merging_threads, called after the first returned success,
\* has returned success as well
C6_Witness ==
    \E t \in Threads :
        /\ call[t].op = "wait_merging_threads" /\ call[t].retired
        /\ pc[t] = "idle" /\ res[t] = Ok(0)
        /\ writer[call[t].b] = "None"

\* ------------------------------------------------------------------- C7
\* C7: no step of any bridge or registry operation makes an empty writer slot
\* non-empty again, and the only step that empties a slot is the take() of
\* wait_merging_threads on that bridge: a slot goes from present to empty at
\* most once and stays empty.
C7_OneWayRetirement ==
    [][\A b \in Bridges :
        /\ writer[b] = "None" => writer'[b] = "None"
        /\ (writer[b] = "Some" /\ writer'[b] = "None") =>
                \E t \in Threads :
                    call[t].b = b /\ wait_merging_threads_lock(t)
      ]_vars

\* a bridge is retired; since then a mutating call on it has returned and a
\* registry call has been made, and its slot is still empty
C7_Witness ==
    \E b \in Bridges : \E t, u \in Threads :
        /\ writer[b] = "None" /\ told[b].waited
        /\ call[t].b = b /\ call[t].op \in Mutating /\ call[t].retired
        /\ pc[t] = "idle"
        /\ call[u].op = "set" /\ call[u].b = b /\ pc[u] = "idle"

\* ------------------------------------------------------------------- C8
\* the stamp of the last commit that returned success on bridge b
LastCommit(b) ==
    IF told[b].commits = {} THEN -1
    ELSE CHOOSE c \in told[b].commits : \A d \in told[b].commits : d <= c

\* the documents whose add_document returned success before that commit ran
AddedBeforeCommit(b) == {d \in told[b].added : d.id < LastCommit(b)}

\* C8: on a bridge on which nothing was deleted, the documents visible after
\* a successful commit are exactly as many as the add_document calls that
\* returned success before it, whichever threads made them and however
\* their calls interleaved: N adds, N documents.
C8_NoLostNoDuplicate ==
    \A b \in Bridges :
        told[b].deleted = {} =>
            Cardinality(Searcher(b)) = Cardinality(AddedBeforeCommit(b))

\* on the new index B2 two add_document calls, one of each thread, have
\* returned success, and the commit one of the threads made after them has
\* returned success: two documents are visible
C8_Witness ==
    /\ Cardinality(told["B2"].added) = 2
    /\ told["B2"].deleted = {}
    /\ \E t, u \in Threads :
        /\ t # u
        /\ call[t].op = "commit" /\ call[t].b = "B2"
        /\ pc[t] = "idle" /\ res[t].kind = "Ok"
        /\ call[u].op = "add_document" /\ call[u].b = "B2"
        /\ pc[u] = "idle" /\ res[u].kind = "Ok"
        /\ \A d \in told["B2"].added : d.id < res[t].val
    /\ Cardinality(Searcher("B2")) = 2

\* ------------------------------------------------------------------- C9
\* what a reader opened now must see of bridge b, from what the callers were
\* told: the documents added before the last successful commit, less those
\* of a term deleted after their add and before that commit
Visible(b) ==
    {d \in AddedBeforeCommit(b) :
        ~ \E x \in told[b].deleted :
            x.term = d.term /\ d.id < x.id /\ x.id < LastCommit(b)}

\* C9: what a reader sees of a bridge is what the last successful commit
\* made visible: a document is visible once a commit that followed its
\* add_document has returned success, and gone once a commit that followed
\* its delete_term(s) has; and the only step that changes what readers see
\* is the engine's commit inside commit(), never add_document or
\* delete_term(s).
C9_VisibleAtCommit ==
    /\ [](\A b \in Bridges : Searcher(b) = Visible(b))
    /\ [][\A b \in Bridges :
            index'[b] # index[b] =>
                \E t \in Threads : call[t].b = b /\ commit_engine(t)
         ]_vars

\* a document added and not yet committed is not visible on B2, while on B1
\* the committed document has been deleted and the commit after the
\* deletion has made it invisible
C9_Witness ==
    /\ told["B2"].added # {} /\ Searcher("B2") = {}
    /\ told["B1"].deleted # {} /\ Searcher("B1") = {}

\* ------------------------------------------------------------------ C10
\* the deletions the loop of delete_terms has made so far are the last
\* entries of the writer's buffer: one deletion per term, in the order of
\* the list, with consecutive stamps, nothing of another caller in between
C10_InLoop(t) ==
    pc[t] = "loop" =>
        LET b == call[t].b
            terms == call[t].terms
            n == Len(terms) - Len(local[t].rest)
            e == engine[b]
            m == Len(e.pending)
        IN /\ mutex[b].holder = t
           /\ local[t].rest = SubSeq(terms, n + 1, Len(terms))
           /\ local[t].ecalls = n
           /\ m >= n
           /\ \A i \in 1..n :
                e.pending[m - n + i] =
                    [op |-> "del", id |-> e.stamp - n + i - 1, term |-> terms[i]]
           /\ n > 0 => local[t].opstamp = e.stamp - 1

\* a delete_terms that has returned success went through the whole list and
\* returned the stamp its loop ended with; one that returned Unavailable
\* issued no engine call
C10_Returned(t) ==
    (call[t].op = "delete_terms" /\ pc[t] = "idle") =>
        /\ res[t].kind = "Ok" =>
                /\ local[t].rest = <<>>
                /\ local[t].ecalls = Len(call[t].terms)
                /\ res[t].val = local[t].opstamp
        /\ res[t].kind = "Unavailable" => local[t].ecalls = 0

\* a delete_terms that locks the mutex (a poisoned mutex is the LockError of
\* C18) and finds the slot empty returns Unavailable and leaves the engine
\* as it was
C10_OnEmptySlot(t) ==
    (/\ delete_terms_lock(t)
     /\ writer[call[t].b] = "None"
     /\ ~mutex[call[t].b].poisoned) =>
        /\ res'[t] = Err("Unavailable")
        /\ pc'[t] = "idle"
        /\ engine' = engine /\ index' = index

\* C10: delete_terms on a live writer holds the lock from its first deletion
\* to its return, issues one engine delete per term in the order given with
\* no other caller's operation between them, and returns the stamp of the
\* deletion of the last term; on an empty slot it returns Unavailable and
\* applies none of the terms.
C10_DeleteTerms ==
    /\ [](\A t \in Threads : C10_InLoop(t) /\ C10_Returned(t))
    /\ [][\A t \in Threads : C10_OnEmptySlot(t)]_vars

\* a delete_terms of two terms has made both deletions and is about to
\* return, while the other thread waits for the lock of the same bridge
C10_Witness ==
    \E t, u \in Threads :
        /\ pc[t] = "loop" /\ Len(call[t].terms) = 2 /\ local[t].rest = <<>>
        /\ pc[u] = "lock" /\ call[u].b = call[t].b

\* ------------------------------------------------------------------ C11
\* a delete_terms called with the empty list: where it stands, it has issued
\* no engine call; past lock() its local stamp is the baseline 0; returned,
\* it has returned Ok(0), or an error that is Unavailable only on an empty
\* slot
C11_State(t) ==
    (call[t].op = "delete_terms" /\ call[t].terms = <<>>) =>
        /\ local[t].ecalls = 0
        /\ pc[t] \in {"lock", "loop", "idle"}
        /\ pc[t] = "loop" => local[t].rest = <<>> /\ local[t].opstamp = 0
        /\ pc[t] = "idle" =>
                /\ res[t] \in {Ok(0), Err("Unavailable"), Err("LockError")}
                /\ res[t] = Err("Unavailable") => writer[call[t].b] = "None"

\* its steps: on a live writer behind a sound lock it goes on to the (empty)
\* loop, and its return is Ok(0); neither step touches the slot, the
\* engine's stamper and buffer, or the index
C11_Steps(t) ==
    (call[t].terms = <<>> /\ (delete_terms_lock(t) \/ delete_terms_return(t))) =>
        /\ (pc[t] = "lock" /\ writer[call[t].b] = "Some"
                /\ ~mutex[call[t].b].poisoned) => pc'[t] = "loop"
        /\ pc[t] = "loop" => res'[t] = Ok(0) /\ pc'[t] = "idle"
        /\ local'[t].ecalls = 0
        /\ writer' = writer /\ engine' = engine /\ index' = index

\* C11: delete_terms with an empty list on a live writer succeeds, returns
\* the baseline stamp 0, issues no engine call and leaves the writer's
\* pending operations (and its stamper) unchanged.
C11_EmptyDeleteTerms ==
    /\ [](\A t \in Threads : C11_State(t))
    /\ [][\A t \in Threads : C11_Steps(t)]_vars

\* a delete_terms([]) has returned Ok(0) on a live writer whose stamper is
\* past 0 and whose buffer holds an operation
C11_Witness ==
    \E t \in Threads :
        /\ call[t].op = "delete_terms" /\ call[t].terms = <<>>
        /\ pc[t] = "idle" /\ res[t] = Ok(0)
        /\ writer[call[t].b] = "Some"
        /\ engine[call[t].b].stamp > 0
        /\ engine[call[t].b].pending # <<>>

\* ------------------------------------------------------------------ C12
\* the steps of set_index_w and remove_index_w
C12_RegistryWrite(t) ==
    \/ \E k \in Keys, b \in Bridges : set_index_w(t, k, b)
    \/ set_index_w_insert(t)
    \/ \E k \in Keys : remove_index_w(t, k)
    \/ remove_index_w_remove(t)

\* C12: the teardown record of a bridge is emitted at most once, and once it
\* is, no key maps to the bridge, no Arc of it waits in the map's collector,
\* its creator has let go of it and no thread holds it from a get; as long
\* as a thread holds a bridge from get, or is inside an operation on it, the
\* bridge is not destroyed, whatever remove or set did to its entry; and no
\* step of set or remove changes a writer slot or destroys a bridge.
C12_SharedOwnership ==
    /\ [](\A b \in Bridges :
            /\ dropped[b] <= 1
            /\ dropped[b] = 1 =>
                    /\ \A k \in Keys : INDEXW_CACHE[k] # b
                    /\ \A t \in Threads : held[t] # b
                    /\ garbage[b] = 0 /\ ~owner[b]
            /\ \A t \in Threads :
                    (held[t] = b \/ (call[t].b = b /\ call[t].op \in BridgeOps
                                        /\ pc[t] \notin {"idle", "panicked"}))
                        => dropped[b] = 0)
    /\ [][\A t \in Threads :
            C12_RegistryWrite(t) => writer' = writer /\ dropped' = dropped]_vars

\* a thread that got B1 by get is inside an engine call on B1 after the
\* other thread's remove or overwriting set of its key has returned and the
\* map has dropped its Arc: the thread's Arc is the only one left, and B1 is
\* not destroyed
C12_Witness ==
    \E t, u \in Threads :
        /\ held[t] = "B1" /\ call[t].b = "B1" /\ pc[t] = "engine"
        /\ call[u].op \in {"remove", "set"} /\ call[u].k = "K1" /\ pc[u] = "idle"
        /\ INDEXW_CACHE["K1"] # "B1"
        /\ strong_count("B1") = 1
        /\ dropped["B1"] = 0

\* ------------------------------------------------------------------ C13
\* each thread has made at most one call so far, and none of them a remove
C13_OnlyGetAndSet ==
    /\ ncalls = Cardinality({t \in Threads : call[t].op # "none"})
    /\ \A t \in Threads : call[t].op # "remove"

\* the bridges the sets on key k, in progress or returned, were called with
C13_SetTo(k) ==
    {call[u].b : u \in {v \in Threads : call[v].op = "set" /\ call[v].k = k}}

\* C13: with K1 mapped to B1, a get(K1) that runs while other threads call
\* set (on K1 or on another key), whatever the interleaving, returns B1 or
\* the bridge a set on K1 was called with: never NotFound and never the
\* bridge of another key. In general a get of a mapped key returns the
\* key's entry, and no step of a set leaves a mapped key unmapped.
C13_GetRacingSet ==
    /\ [](\A t \in Threads :
            (C13_OnlyGetAndSet /\ call[t].op = "get" /\ call[t].k = "K1") =>
                /\ res[t].kind = "Ok"
                /\ res[t].b \in {"B1"} \cup C13_SetTo("K1"))
    /\ [][\A t \in Threads : \A k \in Keys :
            /\ (get_index_w(t, k) /\ INDEXW_CACHE[k] # NoBridge) =>
                    res'[t] = OkBridge(INDEXW_CACHE[k])
            /\ ((\E j \in Keys, b \in Bridges : set_index_w(t, j, b))
                    \/ set_index_w_insert(t)) =>
                    (INDEXW_CACHE[k] # NoBridge => INDEXW_CACHE'[k] # NoBridge)
         ]_vars

\* a get(K1) has returned the new bridge B2 right after the insert of a
\* set(K1, B2) whose caller has not gone on since; before it the key was
\* mapped to B1
C13_Witness ==
    \E t, u \in Threads :
        /\ C13_OnlyGetAndSet
        /\ call[t].op = "get" /\ call[t].k = "K1" /\ res[t] = OkBridge("B2")
        /\ call[u].op = "set" /\ call[u].k = "K1" /\ call[u].b = "B2"
        /\ res[u] = Err("AlreadyExists")

\* ------------------------------------------------------------------ C14
\* bridge b is a bridge for identifier k: k maps to it in the registry, or a
\* thread holds it as what its get(k) returned
C14_For(k, b) ==
    \/ INDEXW_CACHE[k] = b
    \/ \E t \in Threads :
            /\ held[t] = b
            /\ call[t].op = "get" /\ call[t].k = k /\ res[t] = OkBridge(b)

\* the bridges for identifier k that exist and have a writer in their slot
C14_Live(k) ==
    {b \in Bridges : C14_For(k, b) /\ dropped[b] = 0 /\ writer[b] = "Some"}

\* C14 as stated: an identifier maps to one bridge, and there are never two
\* bridges with a live (non-retired) writer for the same identifier.
C14_OneLiveWriterPerIdentifier ==
    \A k \in Keys : Cardinality(C14_Live(k)) <= 1

\* C14 as amended: the entry of an identifier changes only in the insert of
\* a set on that identifier, to the one bridge the set was called with, and
\* in the removal of a remove on that identifier, to none; a get hands out
\* the one bridge the identifier maps to at that moment; so of the bridges
\* with a live writer for an identifier at most one is its entry, any other
\* being an overwritten or removed bridge in the hands of an earlier get.
C14_OneEntryPerIdentifier ==
    [][/\ \A k \in Keys :
            INDEXW_CACHE'[k] # INDEXW_CACHE[k] =>
                \E u \in Threads :
                    /\ call[u].k = k
                    /\ \/ set_index_w_insert(u) /\ INDEXW_CACHE'[k] = call[u].b
                       \/ remove_index_w_remove(u) /\ INDEXW_CACHE'[k] = NoBridge
       /\ \A t \in Threads : \A j \in Keys :
            (get_index_w(t, j) /\ res'[t].kind = "Ok") =>
                /\ res'[t].b = INDEXW_CACHE[j]
                /\ held'[t] = INDEXW_CACHE[j]
      ]_vars

\* K1 maps to B2 while a thread holds B1 as what its get(K1) returned, and
\* both bridges have a live writer
C14_Witness ==
    \E t \in Threads :
        /\ call[t].op = "get" /\ call[t].k = "K1" /\ res[t] = OkBridge("B1")
        /\ held[t] = "B1"
        /\ INDEXW_CACHE["K1"] = "B2"
        /\ writer["B1"] = "Some" /\ writer["B2"] = "Some"
        /\ \A u \in Threads : pc[u] = "idle"

\* ------------------------------------------------------------------ C15
\* C15: a bridge operation whose engine call reported a failure has not
\* returned success: every engine failure inside commit, add_document,
\* delete_term, delete_terms or wait_merging_threads reaches the caller as an
\* error result.
C15_FailuresReturned ==
    \A t \in Threads :
        (call[t].op \in BridgeOps /\ pc[t] = "idle" /\ local[t].efail) =>
            res[t].kind # "Ok"

\* ------------------------------------------------------------------ C16
\* C16: a thread that is not inside a bridge operation past lock() - it has
\* returned, with success, Unavailable, LockError or an engine error, or
\* has not locked yet, or has panicked - holds no bridge's lock; so
\* whenever no operation is in progress on a bridge its lock is free for
\* the next caller.
C16_LockReleased ==
    /\ \A t \in Threads :
            pc[t] \notin {"engine", "loop", "drain"} =>
                \A b \in Bridges : mutex[b].holder # t
    /\ \A b \in Bridges :
            (\A t \in Threads :
                ~(call[t].b = b /\ pc[t] \in {"engine", "loop", "drain"})) =>
                CanLock(mutex[b])

\* on one bridge an operation has returned an engine error and, after a
\* wait_merging_threads returned success, another has returned Unavailable:
\* the lock is free
C16_Witness ==
    \E b \in Bridges : \E t, u \in Threads :
        /\ call[t].b = b /\ pc[t] = "idle" /\ res[t] = Err("EngineError")
        /\ call[u].b = b /\ pc[u] = "idle" /\ res[u] = Err("Unavailable")
        /\ told[b].waited
        /\ mutex[b].holder = NoThread

\* ------------------------------------------------------------------ C17
\* thread u waits in lock() of a mutating call on bridge b while thread t
\* drains the merges of b
C17_Waiting(t, u, b) ==
    /\ pc[t] = "drain" /\ call[t].b = b
    /\ pc[u] = "lock" /\ call[u].b = b /\ call[u].op \in Mutating

\* u has returned Unavailable without an engine call
C17_Unavailable(u) ==
    pc[u] = "idle" /\ res[u] = Err("Unavailable") /\ local[u].ecalls = 0

\* C17: while a thread is inside the drain of wait_merging_threads on a
\* bridge, the slot is already empty and no caller of that bridge gets past
\* lock(); a mutating call that waits there has issued no engine call and,
\* if the drain ends without a panic (which would poison the lock) and lock
\* acquisition is fair, eventually returns Unavailable, still without an
\* engine call.
C17_WaitsThenUnavailable ==
    /\ [](\A t, u \in Threads : \A b \in Bridges :
            /\ (pc[t] = "drain" /\ call[t].b = b) => writer[b] = "None"
            /\ C17_Waiting(t, u, b) => local[u].ecalls = 0)
    /\ [][\A t, u \in Threads :
            (pc[t] = "drain" /\ call[u].b = call[t].b) => ~LockStep(u)]_vars
    /\ \A t \in Threads : \A u \in Threads \ {t} : \A b \in Bridges :
            C17_Waiting(t, u, b) ~> (C17_Unavailable(u) \/ mutex[b].poisoned)

\* a mutating call made before the wait_merging_threads of its bridge
\* returned has itself returned Unavailable, after the wait returned success
C17_Witness ==
    \E t, u \in Threads :
        /\ t # u
        /\ call[t].op = "wait_merging_threads" /\ pc[t] = "idle" /\ res[t] = Ok(0)
        /\ ~call[t].retired
        /\ call[u].b = call[t].b /\ call[u].op \in Mutating /\ ~call[u].retired
        /\ C17_Unavailable(u)

\* ------------------------------------------------------------------ C18
\* C18: a poisoned lock stays poisoned; no thread is inside an operation on
\* a bridge whose lock is poisoned; and every call of commit, add_document,
\* delete_term, delete_terms or wait_merging_threads that comes to lock() on
\* a poisoned lock returns LockError there, with no engine call and with
\* the slot, the engine and the index left as they were.
C18_PoisonedForGood ==
    /\ [](\A b \in Bridges : mutex[b].poisoned => Inside(b) = {})
    /\ [][\A b \in Bridges : mutex[b].poisoned => mutex'[b].poisoned]_vars
    /\ [][\A t \in Threads :
            (LockStep(t) /\ mutex[call[t].b].poisoned) =>
                /\ res'[t] = Err("LockError")
                /\ pc'[t] = "idle"
                /\ local'[t].ecalls = 0
                /\ writer' = writer /\ engine' = engine /\ index' = index
                /\ mutex' = mutex
         ]_vars

\* a thread has panicked inside an operation on a bridge: the lock is
\* poisoned with the writer still in the slot, and a wait_merging_threads
\* called on the bridge has returned LockError
C18_Witness ==
    \E b \in Bridges : \E t, u \in Threads :
        /\ mutex[b].poisoned /\ writer[b] = "Some"
        /\ call[t].b = b /\ pc[t] = "idle" /\ res[t] = Err("LockError")
        /\ call[t].op = "wait_merging_threads"
        /\ pc[u] = "panicked" /\ call[u].b = b

\* ------------------------------------------------------------------ C19
\* the stamps the successful mutating operations of a bridge have returned
\* so far (an operation holds the lock until it returns: the order of the
\* returns is the order of the lock acquisitions)
C19_Stamps(tb) ==
    {d.id : d \in tb.added} \cup {x.id : x \in tb.deleted} \cup tb.commits

\* thread t returns success from a mutating operation in this step
C19_ReturnsOk(t) ==
    /\ call[t].op \in Mutating
    /\ pc[t] \in {"engine", "loop"} /\ pc'[t] = "idle"
    /\ res'[t].kind = "Ok"

\* C19 as stated: no successful mutating operation of a bridge returns a
\* stamp smaller than one returned by an earlier successful operation of
\* that bridge.
C19_Monotonic ==
    [][\A t \in Threads :
        C19_ReturnsOk(t) =>
            \A s \in C19_Stamps(told[call[t].b]) : s <= res'[t].val
      ]_vars

\* C19 as amended: a successful mutating operation that made an engine call
\* (every commit, add_document and delete_term, and delete_terms with a
\* non-empty list) returns a stamp greater than every stamp returned
\* earlier on that bridge; delete_terms with an empty list returns 0
\* whatever was returned before.
C19_MonotonicButEmpty ==
    [][\A t \in Threads :
        C19_ReturnsOk(t) =>
            IF local'[t].ecalls > 0
            THEN \A s \in C19_Stamps(told[call[t].b]) : s < res'[t].val
            ELSE call[t].op = "delete_terms" /\ call[t].terms = <<>>
                    /\ res'[t].val = 0
      ]_vars

\* on B1, whose earlier operations returned the stamps 0 and 1, a
\* delete_terms with an empty list has returned 0 and a delete_terms with a
\* non-empty list has returned a greater stamp than all before
C19_Witness ==
    \E t, u \in Threads :
        /\ call[t].op = "delete_terms" /\ call[t].b = "B1"
        /\ call[t].terms = <<>> /\ pc[t] = "idle" /\ res[t] = Ok(0)
        /\ call[u].op = "delete_terms" /\ call[u].b = "B1"
        /\ call[u].terms # <<>> /\ pc[u] = "idle" /\ res[u].kind = "Ok"
        /\ \A s \in C19_Stamps(told["B1"]) : s <= res[u].val

\* ------------------------------------------------------------------ C20
\* the engine call of a commit or add_document of thread t fails in this step
C20_Fails(t) ==
    /\ commit_engine(t) \/ add_document_engine(t)
    /\ local'[t].efail

\* C20: when the engine's commit or add_document fails, the operation
\* returns that failure after its one engine call, and the step leaves the
\* writer in the slot, the lock free and sound and the index as it was; and
\* a mutating call that locks a bridge with a writer in the slot goes on to
\* the engine, so the call after a failure is not answered Unavailable.
C20_EngineErrorKeepsWriter ==
    /\ [](\A t \in Threads :
            (call[t].op \in {"commit", "add_document"} /\ local[t].efail) =>
                /\ pc[t] = "idle"
                /\ res[t] = Err("EngineError")
                /\ local[t].ecalls = 1)
    /\ [][\A t \in Threads :
            /\ C20_Fails(t) =>
                /\ res'[t] = Err("EngineError")
                /\ local'[t].ecalls = 1
                /\ writer' = writer /\ writer[call[t].b] = "Some"
                /\ index' = index
                /\ mutex'[call[t].b] = [holder |-> NoThread, poisoned |-> FALSE]
            /\ (LockStep(t) /\ call[t].op \in Mutating
                    /\ writer[call[t].b] = "Some"
                    /\ ~mutex[call[t].b].poisoned) =>
                pc'[t] \in {"engine", "loop"}
         ]_vars

\* a commit on a bridge has returned the engine's error, and the other
\* thread, having locked the bridge after that, is inside the engine call
\* of a mutating operation: the writer is still in the slot
C20_Witness ==
    \E t, u \in Threads :
        /\ call[t].op = "commit" /\ pc[t] = "idle" /\ res[t] = Err("EngineError")
        /\ call[u].b = call[t].b /\ call[u].op \in Mutating /\ pc[u] = "engine"
        /\ writer[call[t].b] = "Some"

====
